---------------------------- MODULE Spec2Model ----------------------------
(***************************************************************************)
(* Model of newcoin_hunter.py: normalisation of a raw pair snapshot,       *)
(* gate evaluation, scoring, stop-loss computation, the two-pass funnel    *)
(* (discovery, refine) and the single-instance lock of main.               *)
(*                                                                         *)
(* Units.  Python floats are modelled by exact integers:                   *)
(*   money (lp_usd, volume_24h_usd, fdv_usd)  in thousands of USD,         *)
(*   price_usd and stop_loss_price            in 1e-13 USD,                *)
(*   ratios and percentages                   in hundredths,               *)
(*   score                                    in hundredths of a point,    *)
(*   timestamps and ages                      in hours.                    *)
(* An optional value (Python None or a value) is <<>> or <<v>>; a key a     *)
(* dict does not hold yet (score, rank, ...) is held as <<>>.              *)
(***************************************************************************)
EXTENDS Integers, Sequences, FiniteSets, TLC

VARIABLES
    \* ---- run(): the pipeline of one invocation
    pc,            \* "fetch" | "discovery" | "refine" | "done"
    qi,            \* index in Chains of the next query to fetch
    rows,          \* the pool: normalised rows collected so far
    fetched,       \* history: per query, what the fetch returned
    disc,          \* the list returned by the discovery run_once
    calls,         \* history: the run_once calls made, in order
    outfiles,      \* tag -> what run_once wrote (candidates, rejects)
    target_disc, target_ref, disc_cfg, ref_cfg,
    \* ---- a single call of a pure function
    fpc,           \* "call" | "done"
    args,          \* the arguments of the call
    ret,           \* what the call returned (or that it raised)
    \* ---- main(): concurrent invocations in one directory
    mpc,           \* per process: position in main
    lock,          \* holder of the flock on .newcoin_hunter.lock, 0 if free
    net,           \* per process: number of chain fetches issued
    written,       \* per process: report files written
    status         \* per process: exit status, <<>> while running

pvars == <<pc, qi, rows, fetched, disc, calls, outfiles,
           target_disc, target_ref, disc_cfg, ref_cfg>>
fvars == <<fpc, args, ret>>
mvars == <<mpc, lock, net, written, status>>
vars  == <<pvars, fvars, mvars>>

-----------------------------------------------------------------------------
(* Generic helpers *)

None == <<>>
Some(v) == <<v>>
Val(o) == o[1]

Min(a, b) == IF a <= b THEN a ELSE b
Max(a, b) == IF a >= b THEN a ELSE b

\* all sequences over S of length at most n
SeqsUpTo(S, n) == UNION {[1..k -> S] : k \in 0..n}

RECURSIVE Concat(_)
Concat(ss) == IF ss = <<>> THEN <<>> ELSE Head(ss) \o Concat(Tail(ss))

-----------------------------------------------------------------------------
(* Raw snapshot values as the JSON decoder delivers them.                   *)
(* A scalar slot holds [t, v]: t is the kind of value found there, v its    *)
(* number (for "num" and "numstr").                                         *)
(*   absent   the key is missing            none     JSON null              *)
(*   num      a number                      numstr   a numeric string "12"  *)
(*   emptystr ""                            badstr   a non-numeric string   *)
(*   obj      a non-empty list or object where a scalar is expected         *)
(* A container slot (liquidity, volume, txns, ...) holds                    *)
(*   "absent" | "none" | "dict" | "scalar" (a truthy value that is no dict) *)

Absent   == [t |-> "absent",   v |-> 0]
Null     == [t |-> "none",     v |-> 0]
Num(n)   == [t |-> "num",      v |-> n]
NumStr(n) == [t |-> "numstr",  v |-> n]
EmptyStr == [t |-> "emptystr", v |-> 0]
BadStr   == [t |-> "badstr",   v |-> 0]
Obj      == [t |-> "obj",      v |-> 0]

\* Python truthiness of a scalar slot read with dict.get(k)
Truthy(x) == \/ x.t \in {"numstr", "badstr", "obj"}
             \/ (x.t = "num" /\ x.v # 0)

\* float(x) / int(x): defined on numbers and numeric strings, raises otherwise
FloatOk(x) == x.t \in {"num", "numstr"}
IntOk(x)   == x.t \in {"num", "numstr"}

\* (p.get(k) or {}).get(f): the field of a container slot; a truthy non-dict
\* has no .get and raises AttributeError
GetRaises(c) == c = "scalar"
Field(c, x)  == IF c = "dict" THEN x ELSE Absent

\* float(x or 0.0)
FloatOrZeroRaises(x) == Truthy(x) /\ ~FloatOk(x)
FloatOrZero(x)       == IF Truthy(x) THEN x.v ELSE 0


-----------------------------------------------------------------------------
(* What a call returns: a value, or that it raised. *)

Raised == [raised |-> TRUE, val |-> None]
Ok(v)  == [raised |-> FALSE, val |-> v]

\* time.time() of the run, in hours
NowH == 100000

\* the sanity ceiling of age_hours_from_ms: 24*365*5 hours
MaxAgeSanityH == 43800

\* pick_created_ms: pair-level pairCreatedAt, createdAt, then info-level
\* createdAt, listedAt, then liquidity-level createdAt; the first truthy one
\* is converted with float()
pick_created_ms(p) ==
    LET info_c == Field(p.info, p.info_createdAt)
        info_l == Field(p.info, p.info_listedAt)
        liq_c  == Field(p.liquidity, p.liq_createdAt)
        conv(x) == IF FloatOk(x) THEN Ok(Some(x.v)) ELSE Raised
    IN  IF Truthy(p.pairCreatedAt) THEN conv(p.pairCreatedAt)
        ELSE IF Truthy(p.createdAt) THEN conv(p.createdAt)
        ELSE IF GetRaises(p.info) THEN Raised
        ELSE IF Truthy(info_c) THEN conv(info_c)
        ELSE IF Truthy(info_l) THEN conv(info_l)
        ELSE IF GetRaises(p.liquidity) THEN Raised
        ELSE IF Truthy(liq_c) THEN conv(liq_c)
        ELSE Ok(None)

\* age_hours_from_ms: None stays None; an age above the ceiling is None;
\* a creation time in the future gives 0
age_hours_from_ms(ms) ==
    IF ms = None THEN None
    ELSE LET age_h == NowH - Val(ms)
         IN  IF age_h > MaxAgeSanityH THEN None ELSE Some(Max(0, age_h))

\* str.lower() on the social types the model uses
Lower(t) == IF t = "Twitter" THEN "twitter"
            ELSE IF t = "Telegram" THEN "telegram" ELSE t

\* the loop of socials() over info["socials"]: acc is <<tw, tg>>.
\* An entry that is no dict has no .get; a type that is a number has no .lower
RECURSIVE SocialsLoop(_, _)
SocialsLoop(items, acc) ==
    IF items = <<>> THEN Ok(acc)
    ELSE LET s == Head(items)
             t == IF s.type = "none" THEN "" ELSE Lower(s.type)
             u == s.url
             tw == IF t = "twitter" /\ acc[1] = "" THEN u ELSE acc[1]
             tg == IF t = "telegram" /\ acc[2] = "" THEN u ELSE acc[2]
         IN  IF ~s.dict \/ s.type = "num" THEN Raised
             ELSE SocialsLoop(Tail(items), <<tw, tg>>)

\* socials(info): <<tw, tg, web>>; info_c is the info container slot
socials(info_c, soc, webs) ==
    IF info_c = "scalar" THEN Ok(<<"", "", "">>)      \* not isinstance(info, dict)
    ELSE
    LET s == IF info_c = "dict" THEN soc ELSE [t |-> "absent", items |-> <<>>]
        w == IF info_c = "dict" THEN webs ELSE [t |-> "absent", items |-> <<>>]
        loop == IF s.t = "list" THEN SocialsLoop(s.items, <<"", "">>)
                ELSE IF s.t = "scalar" THEN Raised     \* not iterable
                ELSE Ok(<<"", "">>)
    IN  IF loop.raised THEN Raised
        ELSE IF w.t = "list" /\ w.items # <<>>
             THEN IF ~w.items[1].dict THEN Raised
                  ELSE Ok(<<loop.val[1], loop.val[2], w.items[1].url>>)
             ELSE Ok(<<loop.val[1], loop.val[2], "">>)

\* row_from_pair: the Candidate of one raw snapshot, or the exception a
\* conversion raised.  (token_symbol, chain, dex, trade_url and explorer_url
\* are display strings no gate or score reads; they are left out.)
row_from_pair(p) ==
    LET txns  == IF p.txns = "dict" THEN p.txns_h24 ELSE "absent"
        vol24 == Field(p.volume, p.vol_h24)
        chg24 == Field(p.priceChange, p.chg_h24)
        b     == Field(txns, p.buys)
        s     == Field(txns, p.sells)
        buys  == IF b.t = "absent" THEN 0 ELSE b.v     \* txns.get("buys",0)
        sells == IF s.t = "absent" THEN 0 ELSE s.v
        created == pick_created_ms(p)
        soc   == socials(IF p.info \in {"dict", "scalar"} THEN p.info ELSE "none",
                         p.socials, p.websites)
        usd   == Field(p.liquidity, p.liq_usd)
        raises ==
            \/ GetRaises(p.txns) \/ GetRaises(txns)
            \/ GetRaises(p.volume) \/ GetRaises(p.priceChange)
            \/ (b.t # "absent" /\ ~IntOk(b))
            \/ (s.t # "absent" /\ ~IntOk(s))
            \/ created.raised
            \/ soc.raised
            \/ FloatOrZeroRaises(p.priceUsd)
            \/ FloatOrZeroRaises(p.fdv)
            \/ GetRaises(p.liquidity) \/ FloatOrZeroRaises(usd)
            \/ FloatOrZeroRaises(vol24)
            \/ (chg24.t \notin {"absent", "none", "emptystr"} /\ ~FloatOk(chg24))
    IN  IF raises THEN Raised
        ELSE Ok([pair_address       |-> p.pairAddress,
                 price_usd          |-> FloatOrZero(p.priceUsd),
                 fdv_usd            |-> FloatOrZero(p.fdv),
                 lp_usd             |-> FloatOrZero(usd),
                 volume_24h_usd     |-> FloatOrZero(vol24),
                 unique_traders_24h |-> buys + sells,
                 buys_24h           |-> buys,
                 sells_24h          |-> sells,
                 chg24_pct          |-> IF chg24.t \in {"absent", "none", "emptystr"}
                                        THEN None ELSE Some(chg24.v),
                 twitter_url        |-> soc.val[1],
                 telegram_url       |-> soc.val[2],
                 website_url        |-> soc.val[3],
                 age_hours          |-> age_hours_from_ms(created.val),
                 \* keys the passes add later
                 score |-> None, stop_loss_price |-> None, rank |-> None,
                 reject_reason |-> None, input_index |-> None])

-----------------------------------------------------------------------------
(* Gates and score *)

\* defaults (thousands of USD, hundredths for min_vliq)
DISCOVERY == [max_age_h |-> 2160, min_lp |-> 3, max_lp |-> 2000,
              max_fdv |-> 20000, min_traders_24h |-> 4, min_vliq |-> 10,
              require_social |-> FALSE]
REFINE    == [max_age_h |-> 504, min_lp |-> 6, max_lp |-> 1500,
              max_fdv |-> 12000, min_traders_24h |-> 8, min_vliq |-> 15,
              require_social |-> TRUE]

\* vol/(lp+1e-9) if lp>0 else 0.0, kept as the exact quotient n/(d+e*eps)
Vliq(r) == IF r.lp_usd > 0
           THEN [n |-> r.volume_24h_usd, d |-> r.lp_usd, e |-> 1]
           ELSE [n |-> 0, d |-> 1, e |-> 0]

\* q >= h/100 for the quotient q = n/(d + e*eps), 0 < eps*|h| < 1:
\*   n/(d+eps) >= h/100  <=>  100n - h*d >= h*eps, whose left side is an
\*   integer and whose right side lies in (0,1) for h > 0, in (-1,0] otherwise.
RatioGE(q, h) == 100 * q.n - h * q.d >= (IF q.e = 1 /\ h > 0 THEN 1 ELSE 0)

\* mutant: only the twitter link counts
HasSocialTwitterOnly(r) == r.twitter_url # ""

HasSocial(r) == r.twitter_url # "" \/ r.telegram_url # "" \/ r.website_url # ""

\* pass_gates: <<passed, reason>>; the reason is the code of the first failing
\* gate (the source formats the threshold into it)
pass_gates(r, cfg) ==
    IF r.age_hours # None /\ Val(r.age_hours) > cfg.max_age_h
    THEN <<FALSE, "age>">>
    ELSE IF ~(cfg.min_lp <= r.lp_usd /\ r.lp_usd <= cfg.max_lp)
    THEN <<FALSE, "lp outside">>
    ELSE IF r.fdv_usd > 0 /\ r.fdv_usd > cfg.max_fdv
    THEN <<FALSE, "fdv>">>
    ELSE IF r.unique_traders_24h < cfg.min_traders_24h
    THEN <<FALSE, "traders24h<">>
    ELSE IF ~RatioGE(Vliq(r), cfg.min_vliq)
    THEN <<FALSE, "vliq<">>
    ELSE IF cfg.require_social /\ ~HasSocial(r)
    THEN <<FALSE, "no_socials">>
    ELSE <<TRUE, "">>

\* the valuation term of score, in hundredths (fdv in thousands of USD)
fdv_ok(fdv) == IF 0 < fdv /\ fdv <= 3000 THEN 100
               ELSE IF fdv <= 6000 THEN 85
               ELSE IF fdv <= 10000 THEN 70
               ELSE IF fdv <= 15000 THEN 50
               ELSE 0

\* the age term of score, in hundredths
age_ok(age) == IF age = None THEN 100
               ELSE IF Val(age) <= 24 THEN 100
               ELSE IF Val(age) <= 72 THEN 75
               ELSE IF Val(age) <= 240 THEN 50
               ELSE 30

\* round(x, 2) of x = num/den - (a positive infinitesimal if below), in
\* hundredths: to the nearest, a tie to the even neighbour; a value just
\* below a tie goes down
RoundHalfEven(num, den, below) ==
    LET fl  == num \div den
        rem == num - fl * den
    IN  IF 2 * rem > den THEN fl + 1
        ELSE IF 2 * rem < den THEN fl
        ELSE IF below THEN fl
        ELSE IF fl % 2 = 0 THEN fl ELSE fl + 1

\* score, in hundredths of a point:
\*   100*(0.46*min(vol/(lp+eps),5)/5 + 0.29*min(traders/1500,1)
\*        + 0.15*fdv_ok + 0.10*age_ok), plus 2.0 on buy pressure, round(.,2)
\* over the common denominator 15*lp
score(r) ==
    LET lp     == r.lp_usd
        vol    == r.volume_24h_usd
        capped == lp > 0 /\ vol - 5 * lp >= 1           \* vol/(lp+eps) >= 5
        d      == IF lp > 0 THEN lp ELSE 1
        vnum   == IF lp <= 0 THEN 0
                  ELSE IF capped THEN 4600 * 15 * d
                  ELSE 920 * 15 * vol                    \* 4600*(vol/lp)/5
        tnum   == 29 * Min(r.unique_traders_24h, 1500) * d      \* 2900*t/1500
        rest   == (15 * fdv_ok(r.fdv_usd) + 10 * age_ok(r.age_hours)) * 15 * d
        below  == lp > 0 /\ ~capped /\ vol > 0
        buys   == r.buys_24h
        sells  == r.sells_24h
        bonus  == IF buys + sells >= 10 /\ 100 * buys > 105 * Max(1, sells)
                  THEN 200 ELSE 0
    IN  RoundHalfEven(vnum + tnum + rest + bonus * 15 * d, 15 * d, below)

\* the unit of price_usd is 1e-13 USD: round(x, 12) keeps multiples of 10
PriceResolution == 10

\* compute_stop_loss(price, vliq, traders): vliq is the quotient of Vliq
compute_stop_loss(price, vliq, traders) ==
    IF price <= 0 THEN 0
    ELSE LET pct1 == IF RatioGE(vliq, 30) /\ traders >= 20 THEN 22 ELSE 25
             pct  == IF ~RatioGE(vliq, 15) \/ traders < 8 THEN 28 ELSE pct1
         IN  PriceResolution *
             RoundHalfEven(price * (100 - pct), 100 * PriceResolution, FALSE)

\* add_exit_prices: the stop-loss of the candidate (the take-profit, valuation
\* target and Fibonacci prices are written next to it and read by nothing)
add_exit_prices(r) ==
    [stop_loss_price |->
        compute_stop_loss(r.price_usd, Vliq(r), r.unique_traders_24h)]

-----------------------------------------------------------------------------
(* run_once: one pass of the funnel *)

\* the loop of run_once over rows[i..]: the passers and the rejects, each a
\* copy of its row with the fields the pass adds.  input_index is a history
\* field: the position of the row in the list the pass was given.
RECURSIVE GateLoop(_, _, _)
GateLoop(rs, i, cfg) ==
    IF i > Len(rs) THEN [items |-> <<>>, rejects |-> <<>>]
    ELSE LET r    == rs[i]
             g    == pass_gates(r, cfg)
             rest == GateLoop(rs, i + 1, cfg)
             rr1  == [r EXCEPT !.input_index = Some(i), !.score = Some(score(r))]
             rr   == [rr1 EXCEPT !.stop_loss_price =
                                     Some(add_exit_prices(rr1).stop_loss_price)]
             rj   == [r EXCEPT !.input_index = Some(i), !.reject_reason = Some(g[2])]
         IN  IF g[1]
             THEN [items |-> <<rr>> \o rest.items, rejects |-> rest.rejects]
             ELSE [items |-> rest.items, rejects |-> <<rj>> \o rest.rejects]

\* sorted(items, key=score, reverse=True): x goes behind every element whose
\* score is at least its own, so equal scores keep the order they came in
\* mutant: x goes before the elements of its own score (the sort is unstable)
RECURSIVE InsertDescUnstable(_, _)
InsertDescUnstable(x, s) ==
    IF s = <<>> THEN <<x>>
    ELSE IF Val(Head(s).score) > Val(x.score)
         THEN <<Head(s)>> \o InsertDescUnstable(x, Tail(s))
    ELSE <<x>> \o s

RECURSIVE InsertDesc(_, _)
InsertDesc(x, s) ==
    IF s = <<>> THEN <<x>>
    ELSE IF Val(Head(s).score) >= Val(x.score) THEN <<Head(s)>> \o InsertDesc(x, Tail(s))
    ELSE <<x>> \o s

RECURSIVE SortedDesc(_, _)
SortedDesc(items, n) ==
    IF n = 0 THEN <<>> ELSE InsertDesc(items[n], SortedDesc(items, n - 1))

\* mutant: the cut keeps one element too many
SliceOneMore(s, n) == IF n >= 0 THEN SubSeq(s, 1, Min(n + 1, Len(s)))
                      ELSE SubSeq(s, 1, Max(0, Len(s) + n))

\* s[:n] of Python: the first n elements; for n < 0 all but the last -n
Slice(s, n) == IF n >= 0 THEN SubSeq(s, 1, Min(n, Len(s)))
               ELSE SubSeq(s, 1, Max(0, Len(s) + n))

\* for i, it in enumerate(items, start=1): it["rank"] = i
Ranked(items) == [i \in 1..Len(items) |-> [items[i] EXCEPT !.rank = Some(i)]]

\* run_once(rows, cfg, target, ...): the returned items, the rejects written
\* next to them, and (history) the passers before the sort and the cut
run_once(rs, cfg, target) ==
    LET g == GateLoop(rs, 1, cfg)
    IN  [items   |-> Ranked(Slice(SortedDesc(g.items, Len(g.items)), target)),
         rejects |-> g.rejects,
         passers |-> g.items]

\* mutant: the pass writes score, stop-loss and rank into the dicts it was
\* given instead of into copies
rows_after_pass_inplace(rs, items) ==
    [i \in 1..Len(rs) |->
        IF \E k \in 1..Len(items) : items[k].input_index = Some(i)
        THEN LET k == CHOOSE k \in 1..Len(items) : items[k].input_index = Some(i)
             IN  [rs[i] EXCEPT !.score = items[k].score,
                               !.stop_loss_price = items[k].stop_loss_price,
                               !.rank = items[k].rank]
        ELSE rs[i]]

\* the caller's list after a pass: every write of run_once goes to
\* rr = dict(r), a copy, so the dicts of the list handed in are untouched
rows_after_pass(rs, items) == rs

-----------------------------------------------------------------------------
(* run: fetch every chain, then the discovery pass, then the refine pass *)

\* --chains, cut to two queries
Chains == <<"base", "solana">>

\* most pairs one fetch returns
MaxPairs == 2

\* the values of --target_disc and of --target_ref tried (argparse takes any
\* int, a negative one too)
TargetsDisc == {-1, 0, 3}
TargetsRef  == {2}

NoSocials == [t |-> "absent", items |-> <<>>]

\* a snapshot as the service sends it when nothing is missing
Snapshot(id, price, fdv, lp, vol, buys, sells, created, soc, webs) ==
    [pairAddress |-> id, priceUsd |-> NumStr(price), fdv |-> Num(fdv),
     liquidity |-> "dict", liq_usd |-> Num(lp), liq_createdAt |-> Absent,
     volume |-> "dict", vol_h24 |-> Num(vol),
     txns |-> "dict", txns_h24 |-> "dict", buys |-> Num(buys), sells |-> Num(sells),
     priceChange |-> "dict", chg_h24 |-> Num(5),
     pairCreatedAt |-> Num(created), createdAt |-> Absent,
     info |-> "dict", info_createdAt |-> Absent, info_listedAt |-> Absent,
     socials |-> soc, websites |-> webs]

Social(type, url) == [t |-> "list",
                      items |-> <<[dict |-> TRUE, type |-> type, url |-> url]>>]

\* the pairs a fetch may return: one that passes both passes, one that has
\* no social link, one whose pool is too small, one the normaliser cannot read
PairA == Snapshot("0xA", 25, 2000, 50, 100, 30, 20, NowH - 10,
                  Social("twitter", "https://x.com/a"), NoSocials)
PairC == Snapshot("0xC", 7, 0, 20, 100, 20, 20, NowH - 100, NoSocials, NoSocials)
PairE == Snapshot("0xE", 3, 1000, 2, 10, 6, 4, NowH - 5,
                  Social("twitter", "https://x.com/e"), NoSocials)
PairBad == [PairA EXCEPT !.pairAddress = "0xBad", !.buys = Null]

PairIds == {"0xA", "0xC", "0xE", "0xBad"}

Pair(id) == CASE id = "0xA" -> PairA
              [] id = "0xC" -> PairC
              [] id = "0xE" -> PairE
              [] OTHER -> PairBad

\* --require_social_refine false --min_lp_refine 1000
RefineLoose == [REFINE EXCEPT !.require_social = FALSE, !.min_lp = 1]

\* rows.extend(row_from_pair(p) for p in pairs): the rows are appended one
\* by one; the first pair that raises ends the loop, the rows before it stay
RECURSIVE ExtendRows(_, _)
ExtendRows(rs, pairs) ==
    IF pairs = <<>> THEN rs
    ELSE LET x == row_from_pair(Pair(Head(pairs)))
         IN  IF x.raised THEN rs
             ELSE ExtendRows(Append(rs, x.val), Tail(pairs))

PInit ==
    /\ pc = "fetch" /\ qi = 1
    /\ rows = <<>> /\ fetched = <<>> /\ disc = <<>> /\ calls = <<>>
    /\ outfiles = [discovery |-> None, refined |-> None]
    /\ target_disc \in TargetsDisc
    /\ target_ref \in TargetsRef
    /\ disc_cfg = DISCOVERY
    /\ ref_cfg \in {REFINE, RefineLoose}

PIdle ==
    /\ pc = "idle" /\ qi = 0
    /\ rows = <<>> /\ fetched = <<>> /\ disc = <<>> /\ calls = <<>>
    /\ outfiles = [discovery |-> None, refined |-> None]
    /\ target_disc = 0 /\ target_ref = 0
    /\ disc_cfg = DISCOVERY /\ ref_cfg = REFINE

AfterFetch ==
    /\ qi' = qi + 1
    /\ pc' = IF qi = Len(Chains) THEN "discovery" ELSE "fetch"
    /\ UNCHANGED <<disc, calls, outfiles, target_disc, target_ref, disc_cfg, ref_cfg>>
    /\ UNCHANGED <<fvars, mvars>>

\* fetch_pairs_for_chain raises (timeout, HTTP status, bad JSON): the except
\* clause of run prints and goes on to the next query
FetchFails ==
    /\ pc = "fetch" /\ qi <= Len(Chains)
    /\ fetched' = Append(fetched, [ok |-> FALSE, pairs |-> <<>>])
    /\ rows' = rows
    /\ AfterFetch

\* fetch_pairs_for_chain returns pairs; they are normalised into the pool
FetchReturns ==
    /\ pc = "fetch" /\ qi <= Len(Chains)
    /\ \E pairs \in SeqsUpTo(PairIds, MaxPairs) :
          /\ fetched' = Append(fetched, [ok |-> TRUE, pairs |-> pairs])
          /\ rows' = ExtendRows(rows, pairs)
    /\ AfterFetch

\* disc = run_once(rows, disc_cfg, target_disc, outdir, "discovery", ...)
Discovery ==
    /\ pc = "discovery"
    /\ LET res == run_once(rows, disc_cfg, target_disc)
       IN  /\ disc' = res.items
           /\ rows' = rows_after_pass(rows, res.items)
           /\ calls' = Append(calls, [tag |-> "discovery", rows |-> rows,
                                      cfg |-> disc_cfg, target |-> target_disc,
                                      passers |-> res.passers])
           /\ outfiles' = [outfiles EXCEPT !.discovery =
                              Some([candidates |-> res.items, rejects |-> res.rejects])]
    /\ pc' = "refine"
    /\ UNCHANGED <<qi, fetched, target_disc, target_ref, disc_cfg, ref_cfg>>
    /\ UNCHANGED <<fvars, mvars>>

\* mutant: the refine pass always reads the discovery output
refined_input_disc_only == disc

\* refined_input = disc if disc else rows
refined_input == IF disc # <<>> THEN disc ELSE rows

\* run_once(refined_input, ref_cfg, target_ref, outdir, "refined", ...)
Refine ==
    /\ pc = "refine"
    /\ LET res == run_once(refined_input, ref_cfg, target_ref)
       IN  /\ disc' = IF disc # <<>> THEN rows_after_pass(disc, res.items) ELSE disc
           /\ rows' = IF disc # <<>> THEN rows ELSE rows_after_pass(rows, res.items)
           /\ calls' = Append(calls, [tag |-> "refined", rows |-> refined_input,
                                      cfg |-> ref_cfg, target |-> target_ref,
                                      passers |-> res.passers])
           /\ outfiles' = [outfiles EXCEPT !.refined =
                              Some([candidates |-> res.items, rejects |-> res.rejects])]
    /\ pc' = "done"
    /\ UNCHANGED <<qi, fetched, target_disc, target_ref, disc_cfg, ref_cfg>>
    /\ UNCHANGED <<fvars, mvars>>

FIdle == fpc = "idle" /\ args = <<>> /\ ret = <<>>

MIdle == mpc = <<>> /\ lock = 0 /\ net = <<>> /\ written = <<>> /\ status = <<>>

Init == PInit /\ FIdle /\ MIdle
Next == FetchFails \/ FetchReturns \/ Discovery \/ Refine
Spec == Init /\ [][Next]_vars

-----------------------------------------------------------------------------
(* Properties of the funnel, checked under Spec *)

\* the six gate conditions as the specification words them; the ratio is
\* volume/(liquidity + eps), taken as 0 when the liquidity is 0
GateConditions(r, cfg) ==
    /\ cfg.min_lp <= r.lp_usd /\ r.lp_usd <= cfg.max_lp
    /\ (r.age_hours = None \/ Val(r.age_hours) <= cfg.max_age_h)
    /\ (r.fdv_usd <= 0 \/ r.fdv_usd <= cfg.max_fdv)
    /\ r.unique_traders_24h >= cfg.min_traders_24h
    /\ RatioGE(IF r.lp_usd = 0 THEN [n |-> 0, d |-> 1, e |-> 0]
               ELSE [n |-> r.volume_24h_usd, d |-> r.lp_usd, e |-> 1],
               cfg.min_vliq)
    /\ (~cfg.require_social \/ r.twitter_url # "" \/ r.telegram_url # ""
                            \/ r.website_url # "")

\* a row without the keys a pass adds
Cand(r) == [r EXCEPT !.score = None, !.stop_loss_price = None, !.rank = None,
                     !.reject_reason = None, !.input_index = None]

\* the passes that have run: what each was given and what it produced
Passes == {[rows    |-> calls[k].rows,
            cfg     |-> calls[k].cfg,
            target  |-> calls[k].target,
            passers |-> calls[k].passers,
            items   |-> Val(outfiles[calls[k].tag]).candidates,
            rejects |-> Val(outfiles[calls[k].tag]).rejects] : k \in 1..Len(calls)}

Indexes(s) == {Val(s[i].input_index) : i \in 1..Len(s)}

\* the rejects are the failing rows, one each, and every row is a passer or
\* a reject and not both
RejectsExact(p) ==
    LET failing == {i \in 1..Len(p.rows) : ~GateConditions(p.rows[i], p.cfg)}
    IN  /\ Indexes(p.rejects) = failing
        /\ Len(p.rejects) = Cardinality(failing)
        /\ \A j \in 1..Len(p.rejects) :
              /\ Cand(p.rejects[j]) = Cand(p.rows[Val(p.rejects[j].input_index)])
              /\ p.rejects[j].reject_reason # None
        /\ Indexes(p.passers) \cap Indexes(p.rejects) = {}
        /\ Indexes(p.passers) \cup Indexes(p.rejects) = 1..Len(p.rows)
        /\ Len(p.passers) + Len(p.rejects) = Len(p.rows)

\* C2 as stated: every pass returns at most target_count ranked candidates,
\* whatever target_count is, and its rejects are exactly the rows that fail
\* a gate, so that every row is a passer or a reject and not both.
C2_AtMostTargetAnyTarget ==
    \A p \in Passes : Len(p.items) <= p.target /\ RejectsExact(p)

\* C2 amended: for a target_count of 0 or more every pass returns at most
\* target_count ranked candidates (for a negative one the cut [:target] keeps
\* all but the last -target passers); the rejects are exactly the rows that
\* fail a gate, and every row is a passer or a reject and not both.
C2_AtMostTarget ==
    \A p \in Passes :
        /\ p.target >= 0 => Len(p.items) <= p.target
        /\ RejectsExact(p)

\* a pass that cut: more passers than the target, and a reject beside them
C2_Witness ==
    \E p \in Passes : /\ p.target >= 1 /\ Len(p.passers) > p.target
                      /\ Len(p.items) = p.target /\ p.rejects # <<>>

\* C3: in the ranked list of a pass the scores never increase, equal scores
\* stand in input order, the list is the head of the fully sorted passers
\* (every passer left out scores no higher than a kept one, and on a tie came
\* later in the input; its length is min(target_count, passers) for a
\* target_count of 0 or more), and the entry at position i has rank i.
C3_RankedOrder ==
    \A p \in Passes :
        LET it == p.items
            sc(x) == Val(x.score)
            ix(x) == Val(x.input_index)
            left == {k \in 1..Len(p.passers) : ix(p.passers[k]) \notin Indexes(it)}
        IN  /\ \A i \in 1..Len(it) : it[i].rank = Some(i)
            /\ \A i \in 1..Len(it) :
                  \E k \in 1..Len(p.passers) : [it[i] EXCEPT !.rank = None] =
                                               [p.passers[k] EXCEPT !.rank = None]
            /\ \A i, j \in 1..Len(it) :
                  i < j => \/ sc(it[i]) > sc(it[j])
                           \/ (sc(it[i]) = sc(it[j]) /\ ix(it[i]) < ix(it[j]))
            /\ \A k \in left : \A i \in 1..Len(it) :
                  \/ sc(p.passers[k]) < sc(it[i])
                  \/ (sc(p.passers[k]) = sc(it[i]) /\ ix(p.passers[k]) > ix(it[i]))
            /\ p.target >= 0 => Len(it) = Min(p.target, Len(p.passers))

\* a ranked list with a tie, a strict descent against the input order, and a
\* passer left out
C3_Witness ==
    \E p \in Passes :
        /\ p.target >= 0 /\ Len(p.items) < Len(p.passers)
        /\ \E i, j \in 1..Len(p.items) :
              i < j /\ p.items[i].score = p.items[j].score
        /\ \E i, j \in 1..Len(p.items) :
              /\ i < j /\ Val(p.items[i].score) > Val(p.items[j].score)
              /\ Val(p.items[i].input_index) > Val(p.items[j].input_index)

\* the ranked output of the discovery pass, as it was written
DiscOut == Val(outfiles.discovery).candidates
RefOut  == Val(outfiles.refined).candidates

\* C4: the discovery pass runs first, over the whole pool with the discovery
\* config and target_disc; the refine pass runs once, after it, with the
\* refine config and target_ref, over the discovery output when that is not
\* empty and over the whole pool when it is.
C4_TwoStageOrder ==
    /\ pc \in {"fetch", "discovery"} => calls = <<>>
    /\ pc = "refine" => Len(calls) = 1
    /\ pc = "done" => Len(calls) = 2
    /\ Len(calls) >= 1 =>
          /\ calls[1].tag = "discovery" /\ calls[1].rows = rows
          /\ calls[1].cfg = disc_cfg /\ calls[1].target = target_disc
    /\ Len(calls) = 2 =>
          /\ calls[2].tag = "refined"
          /\ calls[2].cfg = ref_cfg /\ calls[2].target = target_ref
          /\ calls[2].rows = IF DiscOut # <<>> THEN DiscOut ELSE rows

\* the run ended after a discovery pass that had passers and returned none
\* of them (target_disc = 0), so the refine pass read the whole pool
C4_Witness ==
    /\ pc = "done" /\ target_disc = 0
    /\ calls[1].passers # <<>> /\ DiscOut = <<>>
    /\ calls[2].rows = rows /\ RefOut # <<>>

\* the rows of the pairs of one fetch that the normaliser can read
RECURSIVE NormalizedRows(_)
NormalizedRows(pairs) ==
    IF pairs = <<>> THEN <<>>
    ELSE LET x == row_from_pair(Pair(Head(pairs)))
         IN  (IF x.raised THEN <<>> ELSE <<x.val>>) \o NormalizedRows(Tail(pairs))

\* C9 as stated: every query is fetched, in order; the pool is the rows of
\* the fetches that succeeded, in order, and nothing of those that failed;
\* both passes run on it.
C9_PoolOfSucceededFetches ==
    /\ pc # "fetch" =>
          /\ Len(fetched) = Len(Chains)
          /\ rows = Concat([k \in 1..Len(fetched) |->
                               IF fetched[k].ok THEN NormalizedRows(fetched[k].pairs)
                               ELSE <<>>])
    /\ pc = "done" => Len(calls) = 2 /\ calls[1].rows = rows

\* C10: when the discovery output is not empty, every entry of the refine
\* output is an entry of the discovery output (so it passes the gates of both
\* configs, and the refine output is no longer than the discovery output),
\* it carries the rank and the score the refine pass gave it, and the
\* discovery list still holds the ranks the discovery pass gave.
C10_Funnel ==
    (pc = "done" /\ DiscOut # <<>>) =>
        /\ Len(RefOut) <= Len(DiscOut)
        /\ \A i \in 1..Len(RefOut) :
              LET x == RefOut[i]
                  j == Val(x.input_index)
              IN  /\ j \in 1..Len(DiscOut)
                  /\ Cand(x) = Cand(DiscOut[j])
                  /\ GateConditions(x, disc_cfg) /\ GateConditions(x, ref_cfg)
                  /\ x.rank = Some(i)
                  /\ x.score = Some(score(Cand(x)))
        /\ \A i, k \in 1..Len(RefOut) :
              i # k => RefOut[i].input_index # RefOut[k].input_index
        /\ disc = DiscOut
        /\ \A j \in 1..Len(disc) : disc[j].rank = Some(j)

\* a refine output whose first entry was second in the discovery output
C10_Witness ==
    /\ pc = "done" /\ Len(DiscOut) >= 2 /\ RefOut # <<>>
    /\ RefOut[1].input_index = Some(2)
    /\ DiscOut[2].rank = Some(2) /\ RefOut[1].rank = Some(1)

-----------------------------------------------------------------------------
(* Single calls of pass_gates, score, compute_stop_loss and row_from_pair *)

BaseRow == row_from_pair(PairA).val

\* the candidates and configs pass_gates is called on: every threshold of
\* DISCOVERY and REFINE from both sides
GateRows ==
    {[BaseRow EXCEPT !.age_hours = a, !.lp_usd = lp, !.fdv_usd = f,
                     !.unique_traders_24h = t, !.buys_24h = t, !.sells_24h = 0,
                     !.volume_24h_usd = v,
                     !.twitter_url = u[1], !.telegram_url = u[2], !.website_url = u[3]] :
        a \in {None, Some(504), Some(505), Some(2161)},
        lp \in {0, 2, 3, 6, 1500, 1501, 2000, 2001},
        f \in {0, 12000, 12001, 20001},
        t \in {3, 4, 8},
        v \in {0, 1, 200, 201, 300, 301},
        u \in {<<"", "", "">>, <<"", "https://t.me/a", "">>, <<"", "", "https://a.io">>}}

\* --min_lp_disc 0 --min_vliq_disc 0
DiscoveryOpen == [DISCOVERY EXCEPT !.min_lp = 0, !.min_vliq = 0]

GateCfgs == {DISCOVERY, REFINE, RefineLoose, DiscoveryOpen}

GateInit ==
    /\ fpc = "call" /\ ret = <<>>
    /\ args \in [r : GateRows, cfg : GateCfgs]
    /\ PIdle /\ MIdle

CallPassGates ==
    /\ fpc = "call"
    /\ ret' = pass_gates(args.r, args.cfg)
    /\ fpc' = "done"
    /\ UNCHANGED <<args, pvars, mvars>>

SpecGate == GateInit /\ [][CallPassGates]_vars

\* C1: pass_gates returns passed = true exactly when the six conditions hold
\* together, and the empty reason exactly when passed is true.
C1_GateIff ==
    fpc = "done" =>
        /\ ret[1] <=> GateConditions(args.r, args.cfg)
        /\ ret[2] = "" <=> ret[1]

\* a candidate on the upper liquidity bound that passes a config which asks
\* for a social link, with a known age and a known valuation
C1_Witness ==
    /\ fpc = "done" /\ ret = <<TRUE, "">>
    /\ args.cfg.require_social /\ args.r.lp_usd = args.cfg.max_lp
    /\ args.r.age_hours # None /\ args.r.fdv_usd > 0

\* ---- score

ScoreRows ==
    {[BaseRow EXCEPT !.fdv_usd = f, !.lp_usd = lp, !.volume_24h_usd = v,
                     !.age_hours = a, !.buys_24h = bs[1], !.sells_24h = bs[2],
                     !.unique_traders_24h = bs[1] + bs[2]] :
        f \in {0, 1, 3000, 3001, 6000, 6001, 10000, 10001, 15000, 15001},
        lp \in {0, 5, 50},
        v \in {0, 2, 100, 300},
        a \in {None, Some(24), Some(25), Some(72), Some(240), Some(241)},
        bs \in {<<0, 0>>, <<6, 4>>, <<5, 5>>, <<1000, 1000>>}}

ScoreInit ==
    /\ fpc = "call" /\ ret = <<>>
    /\ args \in ScoreRows
    /\ PIdle /\ MIdle

CallScore ==
    /\ fpc = "call"
    /\ ret' = score(args)
    /\ fpc' = "done"
    /\ UNCHANGED <<args, pvars, mvars>>

SpecScore == ScoreInit /\ [][CallScore]_vars

\* the valuation tiers as the specification gives them: an unknown
\* valuation (0) is in the top tier
ClaimedTier(fdv) == IF fdv <= 3000 THEN 100
                    ELSE IF fdv <= 6000 THEN 85
                    ELSE IF fdv <= 10000 THEN 70
                    ELSE IF fdv <= 15000 THEN 50
                    ELSE 0

\* C5: the valuation term of score is 1.0 up to 3M, 0.85 up to 6M, 0.7 up to
\* 10M, 0.5 up to 15M and 0 above, and a candidate of valuation 0 scores as
\* the same candidate with a valuation in (0, 3M] does.
C5_ValuationTiers ==
    fpc = "done" =>
        /\ fdv_ok(args.fdv_usd) = ClaimedTier(args.fdv_usd)
        /\ args.fdv_usd = 0 => ret = score([args EXCEPT !.fdv_usd = 3000])

\* ---- compute_stop_loss

\* prices around the resolution of round(., 12) and well above it, ratios
\* and trader counts on both sides of every threshold
StopLossArgs ==
    [price : (-1..45) \cup {1000, 123456},
     vliq : {0, 14, 15, 29, 30, 100},
     traders : {0, 7, 8, 19, 20}]

StopLossInit ==
    /\ fpc = "call" /\ ret = <<>>
    /\ args \in StopLossArgs
    /\ PIdle /\ MIdle

CallStopLoss ==
    /\ fpc = "call"
    /\ ret' = compute_stop_loss(args.price, [n |-> args.vliq, d |-> 100, e |-> 0],
                                args.traders)
    /\ fpc' = "done"
    /\ UNCHANGED <<args, pvars, mvars>>

SpecStopLoss == StopLossInit /\ [][CallStopLoss]_vars

\* C7: the stop-loss returned is below the price whenever the price is
\* positive, and 0 whenever it is not.
C7_StopLossBelowPrice ==
    fpc = "done" =>
        /\ args.price > 0 => ret < args.price
        /\ args.price <= 0 => ret = 0

\* ---- row_from_pair

ScalarSlots == {Absent, Null, Num(0), Num(7), NumStr(7), EmptyStr, BadStr, Obj}
ContainerSlots == {"absent", "none", "dict", "scalar"}
SocialSlots ==
    {NoSocials, [t |-> "none", items |-> <<>>], [t |-> "scalar", items |-> <<>>],
     Social("Twitter", "https://x.com/a"), Social("none", "https://x.com/a"),
     Social("num", "https://x.com/a"),
     [t |-> "list", items |-> <<[dict |-> FALSE, type |-> "none", url |-> ""]>>],
     [t |-> "list", items |-> <<[dict |-> TRUE, type |-> "twitter", url |-> ""],
                                [dict |-> TRUE, type |-> "twitter", url |-> "https://x.com/b"],
                                [dict |-> TRUE, type |-> "telegram", url |-> "https://t.me/b"]>>]}
WebsiteSlots ==
    {NoSocials, [t |-> "none", items |-> <<>>], [t |-> "scalar", items |-> <<>>],
     [t |-> "list", items |-> <<>>],
     [t |-> "list", items |-> <<[dict |-> TRUE, url |-> "https://a.io"]>>],
     [t |-> "list", items |-> <<[dict |-> TRUE, url |-> ""]>>],
     [t |-> "list", items |-> <<[dict |-> FALSE, url |-> ""]>>]}

\* the snapshots one change away from p
Perturbed(p) ==
    UNION {
      {[p EXCEPT ![f] = x] : f \in {"priceUsd", "fdv", "liq_usd", "vol_h24", "buys",
                                    "sells", "chg_h24", "pairCreatedAt", "createdAt",
                                    "info_createdAt", "info_listedAt", "liq_createdAt"},
                             x \in ScalarSlots},
      {[p EXCEPT ![f] = c] : f \in {"liquidity", "volume", "txns", "txns_h24",
                                    "priceChange", "info"},
                             c \in ContainerSlots},
      {[p EXCEPT !.socials = x] : x \in SocialSlots},
      {[p EXCEPT !.websites = x] : x \in WebsiteSlots}}

\* the snapshots at most two changes away from a complete one
RawSnapshots == UNION {Perturbed(q) : q \in Perturbed(PairA)}

RowInit ==
    /\ fpc = "call" /\ ret = <<>>
    /\ args \in RawSnapshots
    /\ PIdle /\ MIdle

CallRowFromPair ==
    /\ fpc = "call"
    /\ ret' = row_from_pair(args)
    /\ fpc' = "done"
    /\ UNCHANGED <<args, pvars, mvars>>

SpecRow == RowInit /\ [][CallRowFromPair]_vars

\* a slot that holds no usable number: missing, null or malformed
Unusable(x) == ~FloatOk(x)

\* C6: row_from_pair raises for no snapshot; a numeric field whose slot is
\* missing, null or malformed is 0 (None for the percent change and, with no
\* creation time, for the age), and a missing link is the empty string.
C6_NeverRaises ==
    fpc = "done" =>
        /\ ~ret.raised
        /\ Unusable(args.priceUsd) => ret.val.price_usd = 0
        /\ Unusable(args.fdv) => ret.val.fdv_usd = 0
        /\ (args.liquidity # "dict" \/ Unusable(args.liq_usd)) => ret.val.lp_usd = 0
        /\ (args.volume # "dict" \/ Unusable(args.vol_h24)) => ret.val.volume_24h_usd = 0
        /\ (args.txns # "dict" \/ args.txns_h24 # "dict" \/ Unusable(args.buys))
              => ret.val.buys_24h = 0
        /\ (args.txns # "dict" \/ args.txns_h24 # "dict" \/ Unusable(args.sells))
              => ret.val.sells_24h = 0
        /\ (args.priceChange # "dict" \/ Unusable(args.chg_h24))
              => ret.val.chg24_pct = None
        /\ (args.info # "dict" \/ args.socials.t # "list")
              => ret.val.twitter_url = "" /\ ret.val.telegram_url = ""
        /\ (args.info # "dict" \/ args.websites.t # "list")
              => ret.val.website_url = ""

-----------------------------------------------------------------------------
(* main: several invocations started in the same directory *)

\* invocations running at once
NProcs == 3

Procs == 1..NProcs

\* positions of a process inside run
Running == {"fetching", "discovery", "refine", "returning"}

ReportFiles(tag) == {<<"candidates", tag, "csv">>, <<"rejects", tag, "csv">>,
                     <<"candidates", tag, "html">>}

MInit ==
    /\ mpc = [p \in Procs |-> "start"]
    /\ lock = 0
    /\ net = [p \in Procs |-> 0]
    /\ written = [p \in Procs |-> {}]
    /\ status = [p \in Procs |-> None]
    /\ PIdle /\ FIdle

\* mutant: the lock is never refused
LockAlwaysFree == TRUE

\* fcntl.flock(lf, LOCK_EX | LOCK_NB) succeeds: no other open file holds the lock
LockFree == lock = 0

\* with open(lock_path, "w") as lf:
OpenLockFile(p) ==
    /\ mpc[p] = "start"
    /\ mpc' = [mpc EXCEPT ![p] = "opened"]
    /\ UNCHANGED <<lock, net, written, status, pvars, fvars>>

\* flock returns at once with the lock; main goes on to run
FlockAcquired(p) ==
    /\ mpc[p] = "opened" /\ LockFree
    /\ lock' = p
    /\ mpc' = [mpc EXCEPT ![p] = "fetching"]
    /\ UNCHANGED <<net, written, status, pvars, fvars>>

\* flock raises BlockingIOError at once: print, sys.exit(0)
FlockBlocked(p) ==
    /\ mpc[p] = "opened" /\ ~LockFree
    /\ mpc' = [mpc EXCEPT ![p] = "exited"]
    /\ status' = [status EXCEPT ![p] = Some(0)]
    /\ UNCHANGED <<lock, net, written, pvars, fvars>>

\* run: one chain query fetched (or failed and skipped)
FetchChain(p) ==
    /\ mpc[p] = "fetching"
    /\ net' = [net EXCEPT ![p] = @ + 1]
    /\ mpc' = [mpc EXCEPT ![p] = IF net[p] + 1 = Len(Chains) THEN "discovery"
                                 ELSE "fetching"]
    /\ UNCHANGED <<lock, written, status, pvars, fvars>>

\* run: the discovery run_once writes its three files
RunDiscovery(p) ==
    /\ mpc[p] = "discovery"
    /\ written' = [written EXCEPT ![p] = @ \cup ReportFiles("discovery")]
    /\ mpc' = [mpc EXCEPT ![p] = "refine"]
    /\ UNCHANGED <<lock, net, status, pvars, fvars>>

\* run: the refine run_once writes its three files
RunRefine(p) ==
    /\ mpc[p] = "refine"
    /\ written' = [written EXCEPT ![p] = @ \cup ReportFiles("refined")]
    /\ mpc' = [mpc EXCEPT ![p] = "returning"]
    /\ UNCHANGED <<lock, net, status, pvars, fvars>>

\* run returns; leaving the with block closes lf, which drops the lock
Finish(p) ==
    /\ mpc[p] = "returning"
    /\ lock' = 0
    /\ mpc' = [mpc EXCEPT ![p] = "done"]
    /\ status' = [status EXCEPT ![p] = Some(0)]
    /\ UNCHANGED <<net, written, pvars, fvars>>

\* run_once raises (the output directory cannot be written): the exception
\* leaves the with block, lf is closed, the process ends with a traceback
RunRaises(p) ==
    /\ mpc[p] \in {"discovery", "refine"}
    /\ lock' = 0
    /\ mpc' = [mpc EXCEPT ![p] = "failed"]
    /\ status' = [status EXCEPT ![p] = Some(1)]
    /\ UNCHANGED <<net, written, pvars, fvars>>

MNext == \E p \in Procs :
            \/ OpenLockFile(p) \/ FlockAcquired(p) \/ FlockBlocked(p)
            \/ FetchChain(p) \/ RunDiscovery(p) \/ RunRefine(p)
            \/ Finish(p) \/ RunRaises(p)

SpecLock == MInit /\ [][MNext]_vars

\* at most one process is inside run, and it holds the lock; a process that
\* found the lock held ended with status 0, fetched nothing and wrote no
\* report; a process that is through run holds the lock no more
SingleInstance ==
    /\ Cardinality({p \in Procs : mpc[p] \in Running}) <= 1
    /\ \A p \in Procs : mpc[p] \in Running => lock = p
    /\ \A p \in Procs : mpc[p] = "exited" =>
          status[p] = Some(0) /\ net[p] = 0 /\ written[p] = {}
    /\ \A p \in Procs : mpc[p] \in {"done", "failed", "exited", "start", "opened"}
                           => lock # p

\* the flock call of a process is one step: with the lock held by another it
\* leads to the exit and nowhere else, and an exited process does nothing more
NoWaitNoRetry ==
    \A p \in Procs :
        /\ (mpc[p] = "opened" /\ lock # 0 /\ mpc'[p] # mpc[p]) => mpc'[p] = "exited"
        /\ mpc[p] = "exited" =>
              mpc'[p] = "exited" /\ net'[p] = net[p] /\ written'[p] = written[p]

\* C8: of the invocations running in one directory at most one is inside run
\* at any time; one that finds the lock held exits at once with status 0,
\* fetches nothing, runs no pass, writes no report, and never waits or tries
\* again; the lock is held for the whole of run and dropped when it ends.
C8_SingleInstance == []SingleInstance /\ [][NoWaitNoRetry]_vars

\* one process wrote its discovery reports while another had exited on the
\* held lock and a third has not asked for it yet
C8_Witness ==
    \E p, q, r \in Procs :
        /\ mpc[p] = "refine" /\ written[p] # {} /\ lock = p
        /\ mpc[q] = "exited" /\ status[q] = Some(0)
        /\ mpc[r] = "opened"

=============================================================================
